---- MODULE Spec2Model ----
(***************************************************************************)
(* Code Quality Assistant: the Express backend (src/backend/server.js)     *)
(* with its line-by-line static analysis and the optional Gemini rewrite,  *)
(* and the browser front end (src/frontend/script.js) with its session     *)
(* log of past analyses.                                                   *)
(*                                                                         *)
(* JavaScript strings are modelled as sequences of one-character strings,  *)
(* so that split, trim, includes, startsWith and the template literal      *)
(* Line ${lineNumber}: ... are computed character by character.            *)
(***************************************************************************)
EXTENDS Integers, Sequences, FiniteSets, TLC

VARIABLES
    ai,                \* server.js:13-22  the Gemini client, or "null"
    pc,                \* position of the POST /analyze handler
    req,               \* req.body of the request being handled
    analyzeCalled,     \* analyzeCode has been invoked for this request
    aiCalls,           \* calls of generateAIFixedCode made for this request
    analysisResponse,  \* server.js:189  the Report analyzeCode returned
    generated,         \* how the awaited generateAIFixedCode call went
    res,               \* the HTTP response sent by the handler
    reports,           \* script.js:1    the session log
    uiPc,              \* position of the analyze button's click handler
    uiReq,             \* the code and language read at the click
    clock,             \* number of clicks so far (the value of new Date())
    analyses           \* history: the successful analyses, oldest first

serverVars == <<ai, pc, req, analyzeCalled, aiCalls, analysisResponse, generated, res>>
uiVars == <<reports, uiPc, uiReq, clock, analyses>>
vars == <<ai, pc, req, analyzeCalled, aiCalls, analysisResponse, generated, res,
          reports, uiPc, uiReq, clock, analyses>>

----------------------------------------------------------------------------
(* Bounds of the model *)

\* tokens concatenated to make a submitted code string
MaxTokens == 3
\* clicks on the analyze button in one session
MaxClicks == 3

----------------------------------------------------------------------------
(* JavaScript values that can arrive in a JSON body *)

JsUndefined == [type |-> "undefined", chars |-> <<>>, num |-> 0]
JsNull == [type |-> "null", chars |-> <<>>, num |-> 0]
JsString(s) == [type |-> "string", chars |-> s, num |-> 0]
JsNumber(n) == [type |-> "number", chars |-> <<>>, num |-> n]
JsArray == [type |-> "array", chars |-> <<>>, num |-> 0]
JsObject == [type |-> "object", chars |-> <<>>, num |-> 0]

\* the ToBoolean conversion applied by !code and !language
Truthy(v) ==
    CASE v.type = "undefined" -> FALSE
      [] v.type = "null" -> FALSE
      [] v.type = "string" -> Len(v.chars) > 0
      [] v.type = "number" -> v.num # 0
      [] OTHER -> TRUE

----------------------------------------------------------------------------
(* String primitives *)

WhiteSpace == {" ", "\t", "\n", "\r"}
Digits == <<"0", "1", "2", "3", "4", "5", "6", "7", "8", "9">>

\* String.prototype.trimStart and trimEnd
RECURSIVE TrimStart(_)
TrimStart(s) ==
    IF Len(s) > 0 /\ s[1] \in WhiteSpace THEN TrimStart(Tail(s)) ELSE s

RECURSIVE TrimEnd(_)
TrimEnd(s) ==
    IF Len(s) > 0 /\ s[Len(s)] \in WhiteSpace
    THEN TrimEnd(SubSeq(s, 1, Len(s) - 1))
    ELSE s

\* String.prototype.trim
Trim(s) == TrimEnd(TrimStart(s))

\* String.prototype.includes
Includes(s, t) ==
    \E i \in 0..(Len(s) - Len(t)) : SubSeq(s, i + 1, i + Len(t)) = t

\* String.prototype.startsWith
StartsWith(s, t) ==
    Len(s) >= Len(t) /\ SubSeq(s, 1, Len(t)) = t

\* String.prototype.indexOf for one character, 1-based; 0 when absent
IndexOf(s, c) ==
    IF \E i \in 1..Len(s) : s[i] = c
    THEN CHOOSE i \in 1..Len(s) : s[i] = c /\ \A j \in 1..(i - 1) : s[j] # c
    ELSE 0

\* String.prototype.split('\n')
RECURSIVE Split(_)
Split(s) ==
    LET i == IndexOf(s, "\n")
    IN  IF i = 0 THEN <<s>>
        ELSE <<SubSeq(s, 1, i - 1)>> \o Split(SubSeq(s, i + 1, Len(s)))

\* Array.prototype.join('\n')
RECURSIVE Join(_)
Join(ls) ==
    IF Len(ls) = 0 THEN <<>>
    ELSE IF Len(ls) = 1 THEN ls[1]
    ELSE ls[1] \o <<"\n">> \o Join(Tail(ls))

\* Number to string, as the template literal ${lineNumber} formats it
RECURSIVE ToDecimal(_)
ToDecimal(n) ==
    IF n < 10 THEN <<Digits[n + 1]>>
    ELSE ToDecimal(n \div 10) \o <<Digits[(n % 10) + 1]>>

----------------------------------------------------------------------------
(* Static analysis: analyzeCode, server.js:49-106 *)

\* the literals the rules look for
TODO == <<"T", "O", "D", "O">>
EqEq == <<"=", "=">>
EqEqEq == <<"=", "=", "=">>
PrintParen == <<"p", "r", "i", "n", "t", "(">>
ConsoleLog == <<"c", "o", "n", "s", "o", "l", "e", ".", "l", "o", "g">>
javascript == <<"j", "a", "v", "a", "s", "c", "r", "i", "p", "t">>
python == <<"p", "y", "t", "h", "o", "n">>

\* server.js:70  the long-line threshold
MaxLineLength == 100

TodoText == "Consider resolving or removing TODOs before release."
LongText == "Break this line into smaller parts for readability."
LooseText == "Use '===' instead of '==' to avoid unexpected type coercion."
DebugText == "Remove debug prints/logs in production code."

\* the template literal Line ${lineNumber}: <text>, the prefix character by
\* character, the fixed explanation as the last element
LineMessage(lineNumber, text) ==
    <<"L", "i", "n", "e", " ">> \o ToDecimal(lineNumber) \o <<":", " ">> \o <<text>>

EmptyTally == [issues |-> <<>>, warnings |-> 0, suggestions |-> 0]

\* issues.push({type: "warning", ...}); warnings++
PushWarning(acc, title, message) ==
    [issues |-> Append(acc.issues,
                       [type |-> "warning", title |-> title, message |-> message]),
     warnings |-> acc.warnings + 1,
     suggestions |-> acc.suggestions]

\* a push that forgets suggestions++
PushSuggestionNoCount(acc, title, message) ==
    [issues |-> Append(acc.issues,
                       [type |-> "suggestion", title |-> title, message |-> message]),
     warnings |-> acc.warnings,
     suggestions |-> acc.suggestions]

\* issues.push({type: "suggestion", ...}); suggestions++
PushSuggestion(acc, title, message) ==
    [issues |-> Append(acc.issues,
                       [type |-> "suggestion", title |-> title, message |-> message]),
     warnings |-> acc.warnings,
     suggestions |-> acc.suggestions + 1]

\* 1. TODO comments
RuleTodo(acc, line, trimmed, lineNumber, language) ==
    IF Includes(trimmed, TODO)
    THEN PushWarning(acc, "TODO comment found", LineMessage(lineNumber, TodoText))
    ELSE acc

\* a length check on the trimmed line
RuleLongLineTrimmed(acc, line, trimmed, lineNumber, language) ==
    IF Len(trimmed) > MaxLineLength
    THEN PushSuggestion(acc, "Line too long", LineMessage(lineNumber, LongText))
    ELSE acc

\* 2. Long line
RuleLongLine(acc, line, trimmed, lineNumber, language) ==
    IF Len(line) > MaxLineLength
    THEN PushSuggestion(acc, "Line too long", LineMessage(lineNumber, LongText))
    ELSE acc

\* language === "javascript"
IsJavascript(language) ==
    language.type = "string" /\ language.chars = javascript

\* an equality check that also fires on !=, >= and <=
RuleLooseEqualityAnyEquals(acc, line, trimmed, lineNumber, language) ==
    IF /\ IsJavascript(language)
       /\ \/ Includes(trimmed, EqEq)
          \/ Includes(trimmed, <<"!", "=">>)
          \/ Includes(trimmed, <<">", "=">>)
          \/ Includes(trimmed, <<"<", "=">>)
       /\ ~Includes(trimmed, EqEqEq)
    THEN PushWarning(acc, "Loose equality operator", LineMessage(lineNumber, LooseText))
    ELSE acc

\* an equality check that forgets the language
RuleLooseEqualityAnyLanguage(acc, line, trimmed, lineNumber, language) ==
    IF Includes(trimmed, EqEq) /\ ~Includes(trimmed, EqEqEq)
    THEN PushWarning(acc, "Loose equality operator", LineMessage(lineNumber, LooseText))
    ELSE acc

\* 3. JavaScript: '==' instead of '==='
RuleLooseEquality(acc, line, trimmed, lineNumber, language) ==
    IF IsJavascript(language) /\ Includes(trimmed, EqEq) /\ ~Includes(trimmed, EqEqEq)
    THEN PushWarning(acc, "Loose equality operator", LineMessage(lineNumber, LooseText))
    ELSE acc

\* a debug check that looks for print( anywhere in the line
RuleDebugAnywhere(acc, line, trimmed, lineNumber, language) ==
    IF Includes(trimmed, PrintParen) \/ Includes(trimmed, ConsoleLog)
    THEN PushSuggestion(acc, "Debug statement", LineMessage(lineNumber, DebugText))
    ELSE acc

\* 4. Debug prints
RuleDebug(acc, line, trimmed, lineNumber, language) ==
    IF StartsWith(trimmed, PrintParen) \/ Includes(trimmed, ConsoleLog)
    THEN PushSuggestion(acc, "Debug statement", LineMessage(lineNumber, DebugText))
    ELSE acc

\* a callback that numbers the lines from 0
AnalyzeLineZeroBased(acc, line, index, language) ==
    LET lineNumber == index
        trimmed == Trim(line)
        a1 == RuleTodo(acc, line, trimmed, lineNumber, language)
        a2 == RuleLongLine(a1, line, trimmed, lineNumber, language)
        a3 == RuleLooseEquality(a2, line, trimmed, lineNumber, language)
    IN  RuleDebug(a3, line, trimmed, lineNumber, language)

\* a callback that runs the debug check before the equality check
AnalyzeLineSwapped(acc, line, index, language) ==
    LET lineNumber == index + 1
        trimmed == Trim(line)
        a1 == RuleTodo(acc, line, trimmed, lineNumber, language)
        a2 == RuleLongLine(a1, line, trimmed, lineNumber, language)
        a3 == RuleDebug(a2, line, trimmed, lineNumber, language)
    IN  RuleLooseEquality(a3, line, trimmed, lineNumber, language)

\* the body of the forEach callback: the four checks in source order
AnalyzeLine(acc, line, index, language) ==
    LET lineNumber == index + 1
        trimmed == Trim(line)
        a1 == RuleTodo(acc, line, trimmed, lineNumber, language)
        a2 == RuleLongLine(a1, line, trimmed, lineNumber, language)
        a3 == RuleLooseEquality(a2, line, trimmed, lineNumber, language)
    IN  RuleDebug(a3, line, trimmed, lineNumber, language)

\* lines.forEach((line, index) => ...), index running from 0.  (The test on
\* the tally only makes the checker evaluate one callback before the next;
\* it is always true.)
RECURSIVE ForEachLine(_, _, _, _)
ForEachLine(lines, index, acc, language) ==
    IF index >= Len(lines) THEN acc
    ELSE LET next == AnalyzeLine(acc, lines[index + 1], index, language)
         IN  IF next.warnings >= 0
             THEN ForEachLine(lines, index + 1, next, language)
             ELSE next

\* the returned object { warnings, suggestions, total: issues.length, issues }
MakeReport(acc) ==
    [warnings |-> acc.warnings,
     suggestions |-> acc.suggestions,
     total |-> Len(acc.issues),
     issues |-> acc.issues]

\* analyzeCode(code, language) for a string code
analyzeCode(code, language) ==
    MakeReport(ForEachLine(Split(code), 0, EmptyTally, language))

\* code.split exists only on strings: any other value makes analyzeCode throw
\* a TypeError at server.js:50
AnalyzeThrows(code) == code.type # "string"

----------------------------------------------------------------------------
(* The rewrite collaborator: generateAIFixedCode, server.js:117-175 *)

\* the backquote character (written by name: the lexer accepts none in a string)
BQ == "backquote"
Fence == <<BQ, BQ, BQ>>

\* extractCodeBlock, server.js:149-167: the lines between the first fence
\* line and the next one
RECURSIVE ExtractLines(_, _, _)
ExtractLines(lines, inCodeBlock, codeLines) ==
    IF Len(lines) = 0 THEN codeLines
    ELSE IF StartsWith(Trim(Head(lines)), Fence)
         THEN IF inCodeBlock THEN codeLines
              ELSE ExtractLines(Tail(lines), TRUE, codeLines)
         ELSE IF inCodeBlock
              THEN ExtractLines(Tail(lines), inCodeBlock, Append(codeLines, Head(lines)))
              ELSE ExtractLines(Tail(lines), inCodeBlock, codeLines)

extractCodeBlock(text) == Trim(Join(ExtractLines(Split(text), FALSE, <<>>)))

\* What the collaborator can do once called: resolve with a response whose
\* text is a string, resolve with a response that has no text, or reject.
\* (It can also never settle: then no action below is taken.)
FencedReply == <<BQ, BQ, BQ, "j", "s", "\n", "x", "=", "1", "\n", BQ, BQ, BQ>>
ProseReply == <<"S", "o", "r", "r", "y", ".">>
EmptyBlockReply == <<BQ, BQ, BQ, "\n", BQ, BQ, BQ>>
OpenBlockReply == <<"o", "k", "\n", " ", BQ, BQ, BQ, "\n", "y", " ", "\n">>

AIOutcomes ==
    {[kind |-> "text", text |-> t] :
        t \in {FencedReply, ProseReply, EmptyBlockReply, OpenBlockReply}}
    \cup {[kind |-> "notext", text |-> <<>>], [kind |-> "reject", text |-> <<>>]}

\* no call is pending or settled; the client does not exist
NoOutcome == [kind |-> "none", text |-> <<>>]
Unavailable == [kind |-> "unavailable", text |-> <<>>]

\* the value generateAIFixedCode resolves with after the await, server.js:138-174:
\* a rejection, or response.text being undefined (text.split throws), lands in
\* the catch and gives null
AfterGenerate(outcome) ==
    IF outcome.kind = "text" THEN JsString(extractCodeBlock(outcome.text))
    ELSE JsNull

----------------------------------------------------------------------------
(* Requests a client can send *)

\* a line filler of 99 characters, and a run of nine newlines
Pad == [i \in 1..99 |-> "a"]
NL9 == [i \in 1..9 |-> "\n"]

Tokens == {TODO, <<"=">>, EqEq, PrintParen, ConsoleLog, <<" ">>, <<"\n">>, NL9, Pad}

RECURSIVE CodesOf(_)
CodesOf(n) ==
    IF n = 0 THEN {<<>>}
    ELSE {t \o c : t \in Tokens, c \in CodesOf(n - 1)}

\* a few longer snippets: several rules on one line, several lines with issues
SampleCodes ==
    {<<>>, <<" ", "\n", " ">>, <<"a">>, TODO,
     EqEq \o <<"\n">> \o PrintParen,
     EqEq \o <<"=", "\n", "a">> \o EqEq,
     Pad \o ConsoleLog \o <<"\n">> \o TODO \o EqEq,
     <<" ">> \o TODO \o Pad \o EqEq \o ConsoleLog \o <<"\n">> \o PrintParen \o TODO}

\* lines built around the comparison operators !=, >= and <=
ComparisonOps == {<<"!", "=">>, <<">", "=">>, <<"<", "=">>}
Affixes == {<<>>, <<"=">>, EqEq, <<" ">>, <<"a">>, <<"\n">>}
ComparisonCodes ==
    {a \o op \o b : a \in Affixes, op \in ComparisonOps, b \in Affixes}
    \cup {<<"a", "!", "=", "b", "\n", "a", "!", "=", "=", "b">>}

\* print( after other text on line 1; print( and console.log together on line 2
DebugCodes ==
    {<<"x", " ", "=", " ">> \o PrintParen \o <<"y", ")", "\n", " ">>
        \o PrintParen \o ConsoleLog}

\* a line of exactly 100 characters, then one of 101 of which two are blanks
LengthCodes ==
    {Pad \o <<"a", "\n", " ">> \o Pad \o <<" ">>}

Codes ==
    UNION {CodesOf(n) : n \in 0..MaxTokens}
    \cup SampleCodes \cup ComparisonCodes \cup DebugCodes \cup LengthCodes

CodeValues ==
    {JsString(c) : c \in Codes}
    \cup {JsUndefined, JsNull, JsNumber(0), JsNumber(5), JsArray, JsObject}

LanguageValues ==
    {JsString(javascript), JsString(python), JsString(<<>>), JsUndefined, JsNumber(7)}

----------------------------------------------------------------------------
(* POST /analyze, server.js:181-201 *)

NoRequest == [code |-> JsUndefined, language |-> JsUndefined]
NoReport == [none |-> TRUE]
NoResponse == [sent |-> FALSE, status |-> 0, body |-> [none |-> TRUE]]

MissingMessage == "Missing 'code' or 'language' in request body."

\* res.status(400).json({ error: ... })
ValidationError ==
    [sent |-> TRUE, status |-> 400, body |-> [error |-> MissingMessage]]

\* a boundary check that forgets the language
RejectsCodeOnly(code, language) == ~Truthy(code)

\* the boundary check !code || !language
Rejects(code, language) == ~Truthy(code) \/ ~Truthy(language)

\* { ...analysisResponse, suggested_code: suggestedCode } sent by res.json
FinalResponse(report, suggestedCode) ==
    [sent |-> TRUE, status |-> 200,
     body |-> [warnings |-> report.warnings,
               suggestions |-> report.suggestions,
               total |-> report.total,
               issues |-> report.issues,
               suggested_code |-> suggestedCode]]

\* The handler up to its await: destructure the body, validate, run
\* analyzeCode, call generateAIFixedCode.  A TypeError thrown by analyzeCode
\* rejects the handler's promise, and the handler sends nothing.
HandleRequest(code, language) ==
    /\ pc = "idle"
    /\ req' = [code |-> code, language |-> language]
    /\ ai' = ai
    /\ generated' = NoOutcome
    /\ IF Rejects(code, language)
       THEN /\ res' = ValidationError
            /\ pc' = "rejected"
            /\ analyzeCalled' = FALSE
            /\ aiCalls' = 0
            /\ analysisResponse' = NoReport
       ELSE /\ analyzeCalled' = TRUE
            /\ res' = NoResponse
            /\ IF AnalyzeThrows(code)
               THEN /\ pc' = "threw"
                    /\ aiCalls' = 0
                    /\ analysisResponse' = NoReport
               ELSE /\ pc' = "awaitAI"
                    /\ aiCalls' = aiCalls + 1
                    /\ analysisResponse' = analyzeCode(code.chars, language)

\* the handler after the await: combine and send
Respond(outcome, suggestedCode) ==
    /\ pc' = "responded"
    /\ generated' = outcome
    /\ res' = FinalResponse(analysisResponse, suggestedCode)
    /\ UNCHANGED <<ai, req, analyzeCalled, aiCalls, analysisResponse>>

\* generateAIFixedCode returned null at `if (!ai) return null`
ResumeWithoutClient ==
    /\ pc = "awaitAI"
    /\ ai = "null"
    /\ Respond(Unavailable, JsNull)

\* ai.models.generateContent settled
ResumeAfterGenerate(outcome) ==
    /\ pc = "awaitAI"
    /\ ai = "client"
    /\ Respond(outcome, AfterGenerate(outcome))

\* the request is over: the response was delivered, or the connection dropped
Finish ==
    /\ pc \in {"responded", "rejected", "threw"}
    /\ pc' = "idle"
    /\ req' = NoRequest
    /\ analyzeCalled' = FALSE
    /\ aiCalls' = 0
    /\ analysisResponse' = NoReport
    /\ generated' = NoOutcome
    /\ res' = NoResponse
    /\ ai' = ai

----------------------------------------------------------------------------
(* The server alone, driven by arbitrary clients *)

NoUiRequest == [code |-> <<>>, language |-> <<>>]

Init ==
    /\ ai \in {"client", "null"}
    /\ pc = "idle"
    /\ req = NoRequest
    /\ analyzeCalled = FALSE
    /\ aiCalls = 0
    /\ analysisResponse = NoReport
    /\ generated = NoOutcome
    /\ res = NoResponse
    /\ reports = <<>>
    /\ uiPc = "ready"
    /\ uiReq = NoUiRequest
    /\ clock = 0
    /\ analyses = <<>>

Request ==
    /\ pc = "idle"
    /\ \E code \in CodeValues, language \in LanguageValues :
           HandleRequest(code, language)
    /\ UNCHANGED uiVars

NullResume == ResumeWithoutClient /\ UNCHANGED uiVars

Generated ==
    /\ pc = "awaitAI"
    /\ \E o \in AIOutcomes : ResumeAfterGenerate(o)
    /\ UNCHANGED uiVars

Done == Finish /\ UNCHANGED uiVars

Next == Request \/ NullResume \/ Generated \/ Done

Spec == Init /\ [][Next]_vars

\* The event loop runs a continuation that is ready, and a finished request
\* ends; nothing makes a client send a request or the collaborator settle.
FairSpec == Spec /\ WF_vars(NullResume) /\ WF_vars(Done)

----------------------------------------------------------------------------
(* The front end: the analyze button and the session log, script.js *)

\* what the user can have in the editor and in the language select
UICodes == SampleCodes
UILanguages == {javascript, python, <<>>}

\* value ?? fallback, for a field of the parsed JSON body
Nullish(body, field, fallback) ==
    IF field \in DOMAIN body THEN body[field] ELSE fallback

\* an addReport that uses push instead of unshift
addReportPush(log, now, language, result) ==
    log \o <<[timestamp |-> now,
              language |-> language,
              total |-> Nullish(result, "total", 0),
              warnings |-> Nullish(result, "warnings", 0),
              suggestions |-> Nullish(result, "suggestions", 0)]>>

\* addReport, script.js:230-243: reports.unshift({...})
addReport(log, now, language, result) ==
    <<[timestamp |-> now,
       language |-> language,
       total |-> Nullish(result, "total", 0),
       warnings |-> Nullish(result, "warnings", 0),
       suggestions |-> Nullish(result, "suggestions", 0)]>> \o log

\* response.ok
ResponseOk(response) == response.status >= 200 /\ response.status <= 299

\* getErroredLineNumbers, script.js:110-124: the number matched by
\* /Line\s+(\d+)\s*:/i in a message, 0 when there is no match
IsDigit(c) == \E d \in 1..10 : Digits[d] = c
DigitValue(c) == (CHOOSE d \in 1..10 : Digits[d] = c) - 1

\* the length of the longest run of characters of `set` starting at s[i]
RECURSIVE RunLength(_, _, _)
RunLength(s, i, set) ==
    IF i <= Len(s) /\ s[i] \in set THEN 1 + RunLength(s, i + 1, set) ELSE 0

\* parseInt(digits, 10)
RECURSIVE ParseInt(_)
ParseInt(ds) ==
    IF Len(ds) = 0 THEN 0
    ELSE 10 * ParseInt(SubSeq(ds, 1, Len(ds) - 1)) + DigitValue(ds[Len(ds)])

DigitSet == {Digits[d] : d \in 1..10}

\* does the pattern match at position i, and which digits does it capture
MatchAt(s, i) ==
    LET ws1 == RunLength(s, i + 4, WhiteSpace)
        dg == RunLength(s, i + 4 + ws1, DigitSet)
        ws2 == RunLength(s, i + 4 + ws1 + dg, WhiteSpace)
        colon == i + 4 + ws1 + dg + ws2
    IN  IF /\ i + 3 <= Len(s)
           /\ s[i] \in {"L", "l"} /\ s[i + 1] \in {"I", "i"}
           /\ s[i + 2] \in {"N", "n"} /\ s[i + 3] \in {"E", "e"}
           /\ ws1 >= 1 /\ dg >= 1
           /\ colon <= Len(s) /\ s[colon] = ":"
        THEN SubSeq(s, i + 4 + ws1, i + 3 + ws1 + dg)
        ELSE <<>>

MatchedLineNumber(message) ==
    LET hits == {i \in 1..Len(message) : MatchAt(message, i) # <<>>}
    IN  IF hits = {} THEN 0
        ELSE ParseInt(MatchAt(message, CHOOSE i \in hits : \A j \in hits : i <= j))

getErroredLineNumbers(issues) ==
    {MatchedLineNumber(issues[k].message) : k \in 1..Len(issues)} \ {0}

\* The click handler up to its await, script.js:294-315.  The button is
\* disabled from here until the finally block, so uiPc = "ready" is the only
\* state in which a click arrives.
Click(code, language) ==
    /\ uiPc = "ready"
    /\ clock < MaxClicks
    /\ clock' = clock + 1
    /\ IF Trim(code) = <<>>
       THEN UNCHANGED <<uiPc, uiReq>>
       ELSE /\ uiPc' = "sending"
            /\ uiReq' = [code |-> code, language |-> language]
    /\ UNCHANGED <<reports, analyses>>

UIClick ==
    /\ uiPc = "ready"
    /\ \E code \in UICodes, language \in UILanguages : Click(code, language)
    /\ UNCHANGED serverVars

\* the POST reaches the server
Deliver ==
    /\ uiPc = "sending"
    /\ HandleRequest(JsString(uiReq.code), JsString(uiReq.language))
    /\ uiPc' = "waiting"
    /\ UNCHANGED <<reports, uiReq, clock, analyses>>

\* fetch rejects: catch, alert, finally
FetchError ==
    /\ uiPc = "sending"
    /\ uiPc' = "ready"
    /\ UNCHANGED <<reports, uiReq, clock, analyses>>
    /\ UNCHANGED serverVars

\* the response is not OK: throw, catch, alert, finally
FetchNotOk ==
    /\ uiPc = "waiting"
    /\ res.sent
    /\ ~ResponseOk(res)
    /\ uiPc' = "ready"
    /\ UNCHANGED <<reports, uiReq, clock, analyses>>
    /\ Finish

\* the response is OK: renderResults, addReport, the suggestion box, finally
FetchOk ==
    /\ uiPc = "waiting"
    /\ res.sent
    /\ ResponseOk(res)
    /\ reports' = addReport(reports, clock, uiReq.language, res.body)
    /\ analyses' = Append(analyses, [language |-> uiReq.language,
                                     total |-> analysisResponse.total,
                                     warnings |-> analysisResponse.warnings,
                                     suggestions |-> analysisResponse.suggestions])
    /\ uiPc' = "ready"
    /\ UNCHANGED <<uiReq, clock>>
    /\ Finish

UINext ==
    UIClick \/ Deliver \/ FetchError \/ NullResume \/ Generated \/ FetchNotOk \/ FetchOk

UISpec == Init /\ [][UINext]_vars

----------------------------------------------------------------------------
(* Properties *)

\* analyzeCode has returned a Report for the request in hand
HasReport == pc \in {"awaitAI", "responded"}

CountOfType(issues, type) ==
    Cardinality({k \in 1..Len(issues) : issues[k].type = type})

\* C1: the Report returned by analyzeCode has total = number of issues =
\* warnings + suggestions, warnings and suggestions being the numbers of
\* issues of type "warning" and "suggestion"; the response carries the same.
C1_CountsAgree ==
    HasReport =>
        /\ analysisResponse.total = Len(analysisResponse.issues)
        /\ analysisResponse.total
               = analysisResponse.warnings + analysisResponse.suggestions
        /\ analysisResponse.warnings
               = CountOfType(analysisResponse.issues, "warning")
        /\ analysisResponse.suggestions
               = CountOfType(analysisResponse.issues, "suggestion")
        /\ pc = "responded" =>
               /\ res.body.total = Len(res.body.issues)
               /\ res.body.total = res.body.warnings + res.body.suggestions

\* a Report with issues of both types
C1_Witness ==
    /\ pc = "responded"
    /\ res.body.warnings >= 2
    /\ res.body.suggestions >= 2
    /\ res.body.total = 4

Missing(v) == v.type = "undefined"

\* C2: a request without code or without language gets status 400 with an
\* error message and nothing else: analyzeCode is not run, the rewrite is
\* not called, and the body has no Report field.
C2_MissingFieldRejected ==
    (pc # "idle" /\ (Missing(req.code) \/ Missing(req.language))) =>
        /\ pc = "rejected"
        /\ res.sent
        /\ res.status = 400
        /\ DOMAIN res.body = {"error"}
        /\ res.body.error = MissingMessage
        /\ ~analyzeCalled
        /\ aiCalls = 0
        /\ analysisResponse = NoReport

\* a request with code present and language absent was answered
C2_Witness ==
    /\ pc = "rejected"
    /\ req.code = JsString(TODO)
    /\ Missing(req.language)
    /\ res.status = 400

\* the request in hand passed the boundary check with a string code and a
\* string language
ValidRequest ==
    /\ pc # "idle"
    /\ req.code.type = "string" /\ Len(req.code.chars) > 0
    /\ req.language.type = "string" /\ Len(req.language.chars) > 0

\* the collaborator was unavailable, threw, or answered with nothing usable:
\* no text at all, or a text without any fenced block
CollaboratorFailed ==
    \/ generated.kind \in {"unavailable", "reject", "notext"}
    \/ generated.kind = "text" /\ ~Includes(generated.text, Fence)

SameReport(body, report) ==
    /\ body.issues = report.issues
    /\ body.warnings = report.warnings
    /\ body.suggestions = report.suggestions
    /\ body.total = report.total

\* C3: when the rewrite collaborator is unavailable, throws or returns an
\* unusable response, the request succeeds with the Report analyzeCode
\* produced and suggested_code null.
C3_FailureGivesNullSuggestion ==
    (ValidRequest /\ pc = "responded" /\ CollaboratorFailed) =>
        /\ res.sent
        /\ res.status = 200
        /\ SameReport(res.body, analysisResponse)
        /\ res.body.suggested_code = JsNull

\* C4: for every valid request the response is eventually sent, whether or
\* not the rewrite call ever completes.
C4_ResponseEventuallySent ==
    (ValidRequest /\ pc = "awaitAI") ~> (pc = "idle" \/ res.sent)

\* C5: analyzeCode is only ever invoked with string arguments and never
\* throws: a request whose code or language is not a string is rejected
\* before analyzeCode is called.
C5_AnalyzerOnlySeesStrings ==
    /\ analyzeCalled => (req.code.type = "string" /\ req.language.type = "string")
    /\ pc # "threw"
    /\ (pc # "idle" /\ (req.code.type # "string" \/ req.language.type # "string"))
           => pc = "rejected"

\* C6: a request with code "" and a language is not rejected, and yields a
\* Report with total 0 and no issues.
C6_EmptyCodeAccepted ==
    (/\ pc # "idle"
     /\ req.code = JsString(<<>>)
     /\ req.language.type = "string" /\ Len(req.language.chars) > 0) =>
        /\ pc \in {"awaitAI", "responded"}
        /\ analysisResponse.total = 0
        /\ analysisResponse.issues = <<>>

\* C7: the session log holds exactly one record per successful analysis,
\* most recent first, each with the language submitted and the total,
\* warnings and suggestions of its Report; a failed analysis adds none.
C7_LogMirrorsAnalyses ==
    /\ Len(reports) = Len(analyses)
    /\ \A i \in 1..Len(reports) :
           LET a == analyses[Len(analyses) - i + 1]
           IN  /\ reports[i].language = a.language
               /\ reports[i].total = a.total
               /\ reports[i].warnings = a.warnings
               /\ reports[i].suggestions = a.suggestions

\* two successful analyses with different results, and one click that failed
C7_Witness ==
    /\ Len(reports) = 2
    /\ reports[1].total # reports[2].total
    /\ reports[1].language # reports[2].language
    /\ clock = 3
    /\ uiPc = "ready"

\* the four titles in rule-declaration order
RuleRank(title) ==
    CASE title = "TODO comment found" -> 1
      [] title = "Line too long" -> 2
      [] title = "Loose equality operator" -> 3
      [] title = "Debug statement" -> 4
      [] OTHER -> 0

LineOf(issue) == MatchedLineNumber(issue.message)

\* C8: issues appear in ascending line order and, within a line, in the
\* order TODO comment found, Line too long, Loose equality operator, Debug
\* statement, each rule at most once per line.
C8_IssuesOrdered ==
    pc = "awaitAI" =>
        LET issues == analysisResponse.issues
        IN  /\ \A k \in 1..Len(issues) : RuleRank(issues[k].title) # 0
            /\ \A k \in 1..(Len(issues) - 1) :
                   \/ LineOf(issues[k]) < LineOf(issues[k + 1])
                   \/ /\ LineOf(issues[k]) = LineOf(issues[k + 1])
                      /\ RuleRank(issues[k].title) < RuleRank(issues[k + 1].title)

\* all four rules on line 1, then two more issues on line 2
C8_Witness ==
    /\ pc = "awaitAI"
    /\ Len(analysisResponse.issues) = 6
    /\ LineOf(analysisResponse.issues[4]) = 1
    /\ LineOf(analysisResponse.issues[5]) = 2

Titles ==
    {"TODO comment found", "Line too long", "Loose equality operator",
     "Debug statement"}

\* the condition under which a line is meant to raise the issue of a title
LooseExpected(line, language) ==
    /\ language = JsString(javascript)
    /\ Includes(Trim(line), EqEq)
    /\ ~Includes(Trim(line), EqEqEq)

Trips(title, line, language) ==
    CASE title = "TODO comment found" -> Includes(Trim(line), TODO)
      [] title = "Line too long" -> Len(line) > 100
      [] title = "Loose equality operator" -> LooseExpected(line, language)
      [] title = "Debug statement" ->
             StartsWith(Trim(line), PrintParen) \/ Includes(Trim(line), ConsoleLog)
      [] OTHER -> FALSE

NewlineCount(code) == Cardinality({i \in 1..Len(code) : code[i] = "\n"})

\* the literal text "Line N:"
LineLabel(n) == <<"L", "i", "n", "e", " ">> \o ToDecimal(n) \o <<":">>

\* C9: the code has one line more than it has newline characters; every
\* issue names a line N in 1..lineCount with the text "Line N:", and the Nth
\* line is one that trips the issue's rule; every line that trips a rule
\* has that rule's issue with its own number.
C9_LineNumbers ==
    pc = "awaitAI" =>
        LET code == req.code.chars
            lines == Split(code)
            issues == analysisResponse.issues
        IN  /\ Len(lines) = 1 + NewlineCount(code)
            /\ \A k \in 1..Len(issues) :
                   LET n == LineOf(issues[k])
                   IN  /\ n \in 1..Len(lines)
                       /\ Includes(issues[k].message, LineLabel(n))
                       /\ Trips(issues[k].title, lines[n], req.language)
            /\ \A n \in 1..Len(lines) : \A title \in Titles :
                   Trips(title, lines[n], req.language) =>
                       \E k \in 1..Len(issues) :
                           /\ issues[k].title = title
                           /\ Includes(issues[k].message, LineLabel(n))

\* an issue on a line with a two-digit number, after an issue on line 1
C9_Witness ==
    /\ pc = "awaitAI"
    /\ Len(analysisResponse.issues) = 2
    /\ LineOf(analysisResponse.issues[1]) = 1
    /\ LineOf(analysisResponse.issues[2]) = 10

LooseIssuesOn(issues, n) ==
    {k \in 1..Len(issues) :
        issues[k].title = "Loose equality operator" /\ LineOf(issues[k]) = n}

\* C10: a line gets the Loose equality operator warning exactly when the
\* language is "javascript" and the trimmed line contains == and not ===;
\* any other language value gets none, and analyzeCode raises no error.
C10_LooseEquality ==
    /\ (pc # "idle" /\ req.code.type = "string" /\ ~Rejects(req.code, req.language))
           => pc # "threw"
    /\ pc = "awaitAI" =>
           LET lines == Split(req.code.chars)
               issues == analysisResponse.issues
           IN  /\ \A n \in 1..Len(lines) :
                      Cardinality(LooseIssuesOn(issues, n))
                          = IF LooseExpected(lines[n], req.language) THEN 1 ELSE 0
               /\ req.language # JsString(javascript) =>
                      \A k \in 1..Len(issues) :
                          issues[k].title # "Loose equality operator"
               /\ \A k \in 1..Len(issues) :
                      issues[k].title = "Loose equality operator" =>
                          issues[k].type = "warning"

\* javascript: line 1 holds ===, line 2 holds == and gets the only warning
C10_Witness ==
    /\ pc = "awaitAI"
    /\ req.language = JsString(javascript)
    /\ Includes(Split(req.code.chars)[1], EqEqEq)
    /\ Len(analysisResponse.issues) = 1
    /\ analysisResponse.issues[1].title = "Loose equality operator"
    /\ LineOf(analysisResponse.issues[1]) = 2

\* the line contains one of !=, >=, <=
HasComparison(line) == \E op \in ComparisonOps : Includes(line, op)

\* C11 as stated: with javascript, every line that contains !=, >= or <= and
\* no === gets the Loose equality operator warning.
C11_FiresOnComparisons ==
    (pc = "awaitAI" /\ req.language = JsString(javascript)) =>
        LET lines == Split(req.code.chars)
        IN  \A n \in 1..Len(lines) :
                (HasComparison(lines[n]) /\ ~Includes(lines[n], EqEqEq)) =>
                    LooseIssuesOn(analysisResponse.issues, n) # {}

\* C11 amended: with javascript, a line that contains !=, >= or <= gets the
\* warning only when it also contains == (as in !==) and no ===; the
\* operators alone raise nothing.
C11_ComparisonsNeedDoubleEquals ==
    (pc = "awaitAI" /\ req.language = JsString(javascript)) =>
        LET lines == Split(req.code.chars)
        IN  \A n \in 1..Len(lines) :
                HasComparison(lines[n]) =>
                    (LooseIssuesOn(analysisResponse.issues, n) # {}
                        <=> (Includes(lines[n], EqEq) /\ ~Includes(lines[n], EqEqEq)))

\* javascript: line 1 is a != b and raises nothing, line 2 is a !== b and
\* raises the warning
C11_Witness ==
    /\ pc = "awaitAI"
    /\ req.language = JsString(javascript)
    /\ req.code.chars = <<"a", "!", "=", "b", "\n", "a", "!", "=", "=", "b">>
    /\ LooseIssuesOn(analysisResponse.issues, 1) = {}
    /\ LooseIssuesOn(analysisResponse.issues, 2) # {}

IssuesOn(issues, title, n) ==
    {k \in 1..Len(issues) : issues[k].title = title /\ LineOf(issues[k]) = n}

\* print( is the first thing on the line after any leading white space
PrintFirst(line) ==
    \E i \in 1..Len(line) :
        /\ \A j \in 1..(i - 1) : line[j] \in WhiteSpace
        /\ i + 5 <= Len(line)
        /\ SubSeq(line, i, i + 5) = PrintParen

\* C12: for every language, a line gets the Debug statement suggestion
\* exactly when its trimmed text starts with print( or it contains
\* console.log; print( after other text raises nothing, and a line meeting
\* both conditions gets exactly one.
C12_DebugStatement ==
    pc = "awaitAI" =>
        LET lines == Split(req.code.chars)
            issues == analysisResponse.issues
        IN  /\ \A n \in 1..Len(lines) :
                   Cardinality(IssuesOn(issues, "Debug statement", n))
                       = IF PrintFirst(lines[n]) \/ Includes(lines[n], ConsoleLog)
                         THEN 1 ELSE 0
            /\ \A k \in 1..Len(issues) :
                   issues[k].title = "Debug statement" => issues[k].type = "suggestion"

\* a language that is not javascript: line 1 is x = print(y) and raises
\* nothing, line 2 starts with print( and holds console.log and raises one
C12_Witness ==
    /\ pc = "awaitAI"
    /\ req.language = JsString(python)
    /\ req.code.chars \in DebugCodes
    /\ IssuesOn(analysisResponse.issues, "Debug statement", 1) = {}
    /\ Cardinality(IssuesOn(analysisResponse.issues, "Debug statement", 2)) = 1
    /\ analysisResponse.suggestions = 1

\* C13: a line gets the Line too long suggestion exactly when the raw line
\* has more than 100 characters, leading and trailing white space counted:
\* never at 100, always at 101.
C13_LongLine ==
    pc = "awaitAI" =>
        LET lines == Split(req.code.chars)
            issues == analysisResponse.issues
        IN  /\ \A n \in 1..Len(lines) :
                   Cardinality(IssuesOn(issues, "Line too long", n))
                       = IF Len(lines[n]) >= 101 THEN 1 ELSE 0
            /\ \A k \in 1..Len(issues) :
                   issues[k].title = "Line too long" => issues[k].type = "suggestion"

\* line 1 has exactly 100 characters and raises nothing; line 2 has 101, two
\* of them blanks at its ends, and raises the suggestion
C13_Witness ==
    /\ pc = "awaitAI"
    /\ LET lines == Split(req.code.chars)
       IN  /\ Len(lines) = 2
           /\ Len(lines[1]) = 100
           /\ Len(lines[2]) = 101
           /\ Len(Trim(lines[2])) = 99
    /\ IssuesOn(analysisResponse.issues, "Line too long", 1) = {}
    /\ IssuesOn(analysisResponse.issues, "Line too long", 2) # {}

====
